---- MODULE Spec2Model ----
(***************************************************************************)
(* extratonupdf/extrato.py: extraction of (date, title, value, category)   *)
(* rows from a bank statement PDF.                                         *)
(*                                                                         *)
(* A Python str is modelled as a sequence of characters, each character a  *)
(* one-character string; a character outside ASCII is written by the name  *)
(* of its code point ("U+2212").  A PDF document is a record of its pages  *)
(* (text and image xrefs as PyMuPDF reports them) and of its image objects *)
(* (xref -> raw bytes).  pdf_to_table is a process whose position is pc.   *)
(***************************************************************************)
EXTENDS Integers, Sequences, FiniteSets, TLC

VARIABLES
    doc,              \* the opened document (pymupdf.open(filename))
    pc,               \* position of the call in pdf_to_table
    text,             \* text / extrato_text
    year,             \* year returned by _discover_year (-1: not yet bound)
    entries,          \* entries of _get_entries: the findall result
    table,            \* table of _get_entries, then of pdf_to_table
    categories_xrefs, \* xrefs returned by _get_categories_as_xrefs
    xrefs_to_hashes,  \* dict built by _get_hashes_by_xref
    extract_calls,    \* number of extract_image calls made, per xref
    category_list,    \* list returned by _get_categories
    new_table,        \* the list the comprehension of pdf_to_table builds
    result,           \* value returned by pdf_to_table (pc = "returned")
    error             \* exception that left pdf_to_table (pc = "raised")

vars == <<doc, pc, text, year, entries, table, categories_xrefs,
          xrefs_to_hashes, extract_calls, category_list, new_table,
          result, error>>

---------------------------------------------------------------------------
(* Characters and the character classes of module re (re.UNICODE).         *)

NL == "\n"

AsciiDigit == {"0", "1", "2", "3", "4", "5", "6", "7", "8", "9"}

\* U+0663 ARABIC-INDIC DIGIT THREE stands for the decimal digits (category
\* Nd) outside ASCII, which \d matches on a str pattern and int() reads.
NonAscii == {"U+2212", "U+0663", "U+00E9"}

IsAscii(c) == c \notin NonAscii

\* \d
IsDigit(c) == c \in AsciiDigit \cup {"U+0663"}

\* [A-Z]
IsUpper(c) ==
    c \in {"A", "B", "C", "D", "E", "F", "G", "H", "I", "J", "K", "L", "M",
           "N", "O", "P", "Q", "R", "S", "T", "U", "V", "W", "X", "Y", "Z"}

\* [0-9.]
IsAmountChar(c) == c \in AsciiDigit \cup {"."}

\* . (no re.DOTALL: anything but a newline)
IsDot(c) == c # NL

DigitValue(c) ==
    CASE c = "0" -> 0 [] c = "1" -> 1 [] c = "2" -> 2 [] c = "3" -> 3
      [] c = "4" -> 4 [] c = "5" -> 5 [] c = "6" -> 6 [] c = "7" -> 7
      [] c = "8" -> 8 [] c = "9" -> 9 [] c = "U+0663" -> 3

\* int(s) for a string of decimal digits
RECURSIVE int(_)
int(s) ==
    IF s = <<>> THEN 0
    ELSE 10 * int(SubSeq(s, 1, Len(s) - 1)) + DigitValue(s[Len(s)])

\* ^ under re.MULTILINE: at the start of the string or right after a newline
AtLineStart(t, p) == p = 1 \/ (p > 1 /\ p <= Len(t) + 1 /\ t[p - 1] = NL)

\* $ under re.MULTILINE: at the end of the string or right before a newline
AtLineEnd(t, p) == p = Len(t) + 1 \/ (p >= 1 /\ p <= Len(t) /\ t[p] = NL)

\* whether the literal lit occurs in t at position p
LiteralAt(t, p, lit) ==
    /\ p >= 1
    /\ p + Len(lit) - 1 <= Len(t)
    /\ \A i \in 1..Len(lit) : t[p + i - 1] = lit[i]

Max(S) == CHOOSE x \in S : \A y \in S : y <= x
Min(S) == CHOOSE x \in S : \A y \in S : x <= y

---------------------------------------------------------------------------
(* _discover_year                                                          *)

vencimento == <<"v", "e", "n", "c", "i", "m", "e", "n", "t", "o">>

\* _GET_YEAR_PATTERN = r'vencimento.*(\d{4})$' tried at position p: the
\* positions where group 1 can start.  The greedy .* takes the last one.
YearGroupStarts(t, p) ==
    IF ~LiteralAt(t, p, vencimento) THEN {}
    ELSE {j \in (p + Len(vencimento))..(Len(t) - 3) :
            /\ \A i \in (p + Len(vencimento))..(j - 1) : IsDot(t[i])
            /\ \A i \in j..(j + 3) : IsDigit(t[i])
            /\ AtLineEnd(t, j + 4)}

\* Variant of SearchYear that returns the last match of the text instead of
\* the first (what iterating finditer to its end would give).
SearchYearLastMatch(t) ==
    LET starts == {p \in 1..Len(t) : YearGroupStarts(t, p) # {}}
    IN  IF starts = {} THEN <<>>
        ELSE LET j == Max(YearGroupStarts(t, Max(starts)))
             IN  <<SubSeq(t, j, j + 3)>>

\* re.search: the match at the leftmost position that has one; <<>> is None,
\* otherwise <<match[1]>>.
SearchYear(t) ==
    LET starts == {p \in 1..Len(t) : YearGroupStarts(t, p) # {}}
    IN  IF starts = {} THEN <<>>
        ELSE LET j == Max(YearGroupStarts(t, Min(starts)))
             IN  <<SubSeq(t, j, j + 3)>>

NoError == [type |-> "", msg |-> ""]

ValueError(m) == [type |-> "ValueError", msg |-> m]

KeyError(k) == [type |-> "KeyError", msg |-> k]

_discover_year ==
    /\ pc = "discover_year"
    /\ LET match == SearchYear(text)
       IN  IF match = <<>>
           THEN /\ error' = ValueError("Year not found in document")
                /\ pc' = "raised"
                /\ year' = year
           ELSE /\ year' = int(match[1])
                /\ pc' = "get_entries"
                /\ error' = error
    /\ UNCHANGED <<doc, text, entries, table, categories_xrefs,
                   xrefs_to_hashes, extract_calls, category_list,
                   new_table, result>>

---------------------------------------------------------------------------
(* _get_entries                                                            *)

R_dollar == <<"R", "$", " ">>

\* the end (exclusive) of the longest run of characters . matches, from p
LineEnd(t, p) == Min({e \in p..(Len(t) + 1) : e = Len(t) + 1 \/ ~IsDot(t[e])})

\* the end (exclusive) of the longest run of characters of [0-9.], from p
AmountRunEnd(t, p) ==
    Min({e \in p..(Len(t) + 1) : e = Len(t) + 1 \/ ~IsAmountChar(t[e])})

\* ([0-9.]+,\d\d)$ at position a, after 'R$ ': the end of the match, 0 if none.
\* [0-9.]+ is greedy and cannot give back a character to ',': the run is whole.
AmountEnd(t, a) ==
    LET e == AmountRunEnd(t, a)
    IN  IF /\ e > a
           /\ e + 2 <= Len(t)
           /\ t[e] = ","
           /\ IsDigit(t[e + 1]) /\ IsDigit(t[e + 2])
           /\ AtLineEnd(t, e + 3)
        THEN e + 3 ELSE 0

\* (.?)R\$ ([0-9.]+,\d\d)$ at position q, the start of the third line: .? is
\* greedy, so one character is tried first and the empty string second.
\* <<group 4, start of group 5, end of match>>, or <<>>.
MarkerAndAmount(t, q) ==
    IF /\ q <= Len(t) /\ IsDot(t[q])
       /\ LiteralAt(t, q + 1, R_dollar)
       /\ AmountEnd(t, q + 4) # 0
    THEN <<SubSeq(t, q, q), q + 4, AmountEnd(t, q + 4)>>
    ELSE IF LiteralAt(t, q, R_dollar) /\ AmountEnd(t, q + 3) # 0
    THEN <<<<>>, q + 3, AmountEnd(t, q + 3)>>
    ELSE <<>>

NoMatch == [groups |-> <<>>, end |-> 0]

\* _GET_ENTRY_PATTERN = r'^(\d\d) ([A-Z]{3})\n(.*)\n(.?)R\$ ([0-9.]+,\d\d)$'
\* tried at position p: [groups |-> the five groups, end |-> end of match],
\* or NoMatch when the pattern does not match there.
MatchEntryAt(t, p) ==
    IF ~(/\ AtLineStart(t, p)
         /\ p + 6 <= Len(t)
         /\ IsDigit(t[p]) /\ IsDigit(t[p + 1])
         /\ t[p + 2] = " "
         /\ IsUpper(t[p + 3]) /\ IsUpper(t[p + 4]) /\ IsUpper(t[p + 5])
         /\ t[p + 6] = NL)
    THEN NoMatch
    ELSE LET e == LineEnd(t, p + 7)   \* (.*) is greedy; \n must follow
         IN  IF e > Len(t) THEN NoMatch
             ELSE LET m == MarkerAndAmount(t, e + 1)
                  IN  IF m = <<>> THEN NoMatch
                      ELSE [groups |-> <<SubSeq(t, p, p + 1),
                                         SubSeq(t, p + 3, p + 5),
                                         SubSeq(t, p + 7, e - 1),
                                         m[1],
                                         SubSeq(t, m[2], m[3] - 1)>>,
                            end |-> m[3]]

\* entry_pattern.findall(extrato_text): the non-overlapping matches, scanning
\* from the left; after a match the scan resumes where the match ended.
RECURSIVE FindAllFrom(_, _)
FindAllFrom(t, p) ==
    IF p > Len(t) THEN <<>>
    ELSE LET m == MatchEntryAt(t, p)
         IN  IF m = NoMatch THEN FindAllFrom(t, p + 1)
             ELSE <<m.groups>> \o FindAllFrom(t, m.end)

findall(t) == FindAllFrom(t, 1)

_MONTHS ==
    (<<"J", "A", "N">> :> 1) @@ (<<"F", "E", "V">> :> 2) @@
    (<<"M", "A", "R">> :> 3) @@ (<<"A", "B", "R">> :> 4) @@
    (<<"M", "A", "I">> :> 5) @@ (<<"J", "U", "N">> :> 6) @@
    (<<"J", "U", "L">> :> 7) @@ (<<"A", "G", "O">> :> 8) @@
    (<<"S", "E", "T">> :> 9) @@ (<<"O", "U", "T">> :> 10) @@
    (<<"N", "O", "V">> :> 11) @@ (<<"D", "E", "Z">> :> 12)

\* Variant of EntryYear without the December rule.
EntryYearNoDecemberRule(y, month) == y

\* entry_year = year if (month != 12) else (year - 1)
EntryYear(y, month) == IF month # 12 THEN y ELSE y - 1

IsLeap(y) == y % 4 = 0 /\ (y % 100 # 0 \/ y % 400 = 0)

DaysInMonth(y, m) ==
    IF m = 2 THEN (IF IsLeap(y) THEN 29 ELSE 28)
    ELSE IF m \in {4, 6, 9, 11} THEN 30 ELSE 31

\* datetime.date(year, month, day): the ValueError it raises, or NoError.
\* (month comes from _MONTHS and is always in 1..12.)
DateError(y, m, d) ==
    IF y < 1 \/ y > 9999 THEN ValueError("year is out of range")
    ELSE IF d < 1 \/ d > DaysInMonth(y, m)
    THEN ValueError("day is out of range for month")
    ELSE NoError

date(y, m, d) == [year |-> y, month |-> m, day |-> d]

\* str.replace(old, new) for a one-character old
RECURSIVE replace(_, _, _)
replace(s, old, new) ==
    IF s = <<>> THEN <<>>
    ELSE (IF s[1] = old THEN new ELSE <<s[1]>>) \o replace(Tail(s), old, new)

\* float(s) for s = digits '.' two digits, the only shape the pattern lets
\* through.  A value is kept as its exact number of hundredths, the decimal
\* the binary64 result is the nearest double to.
float(s) ==
    LET dot == Min({i \in 1..Len(s) : s[i] = "."})
    IN  100 * int(SubSeq(s, 1, dot - 1)) + int(SubSeq(s, dot + 1, Len(s)))

\* Variant of EntryValue that negates only for the marker U+2212.
EntryValueMinusSignOnly(entry) ==
    LET value == float(replace(replace(entry[5], ".", <<>>), ",", <<".">>))
    IN  IF entry[4] = <<"U+2212">> THEN -value ELSE value

\* value = float(entry[4].replace('.', '').replace(',', '.'))
\* if entry[3]: value = -value
EntryValue(entry) ==
    LET value == float(replace(replace(entry[5], ".", <<>>), ",", <<".">>))
    IN  IF entry[4] # <<>> THEN -value ELSE value

\* str(s): the characters as one string (the argument of a KeyError)
RECURSIVE Str(_)
Str(s) == IF s = <<>> THEN "" ELSE s[1] \o Str(Tail(s))

\* The body of the loop for one entry: the exception it raises, or NoError
\* and the row appended to table.
EntryError(entry, y) ==
    IF entry[2] \notin DOMAIN _MONTHS THEN KeyError(Str(entry[2]))
    ELSE DateError(EntryYear(y, _MONTHS[entry[2]]), _MONTHS[entry[2]],
                   int(entry[1]))

EntryRow(entry, y) ==
    LET month == _MONTHS[entry[2]]
    IN  <<date(EntryYear(y, month), month, int(entry[1])),
          entry[3],
          EntryValue(entry)>>

\* entries = entry_pattern.findall(extrato_text); table = []
_get_entries ==
    /\ pc = "get_entries"
    /\ entries' = findall(text)
    /\ table' = <<>>
    /\ pc' = "for_entry"
    /\ UNCHANGED <<doc, text, year, categories_xrefs, xrefs_to_hashes,
                   extract_calls, category_list, new_table, result, error>>

\* one iteration of "for entry in entries", or the return after the last one
for_entry ==
    /\ pc = "for_entry"
    /\ IF Len(table) = Len(entries)
       THEN /\ pc' = "get_categories"
            /\ UNCHANGED <<table, error>>
       ELSE LET entry == entries[Len(table) + 1]
            IN  IF EntryError(entry, year) # NoError
                THEN /\ error' = EntryError(entry, year)
                     /\ pc' = "raised"
                     /\ table' = table
                ELSE /\ table' = table \o <<EntryRow(entry, year)>>
                     /\ UNCHANGED <<pc, error>>
    /\ UNCHANGED <<doc, text, year, entries, categories_xrefs,
                   xrefs_to_hashes, extract_calls, category_list,
                   new_table, result>>

---------------------------------------------------------------------------
(* _get_categories, _get_categories_as_xrefs, _get_hashes_by_xref          *)

_TRANSACTIONS_START_PAGE == 4

\* Variant of AfterFirst that keeps the first image: images_info[0:]
AfterFirstKeepingFirst(images_info) == images_info

\* images_info[1:]
AfterFirst(images_info) == SubSeq(images_info, 2, Len(images_info))

\* for page_num in range(from, len(pymupdf_document)): the xrefs of
\* images_info[1:] of each page, appended in turn (page_num counts from 0)
RECURSIVE XrefsFromPage(_, _)
XrefsFromPage(d, page_num) ==
    IF page_num >= Len(d.pages) THEN <<>>
    ELSE AfterFirst(d.pages[page_num + 1].images)
         \o XrefsFromPage(d, page_num + 1)

CategoriesAsXrefs(d) == XrefsFromPage(d, _TRANSACTIONS_START_PAGE)

\* zlib.adler32(bytes): the two 16-bit sums; the checksum is b * 65536 + a
\* (the loop over the bytes, from byte number i with the sums a and b)
RECURSIVE Adler(_, _, _, _)
Adler(bytes, i, a, b) ==
    IF i > Len(bytes) THEN [a |-> a, b |-> b]
    ELSE Adler(bytes, i + 1, (a + bytes[i]) % 65521,
               (b + ((a + bytes[i]) % 65521)) % 65521)

adler32(bytes) == Adler(bytes, 1, 1, 0)

\* Variant of HexDigit for the format '08X' (upper-case digits).
HexDigitUpper(n) ==
    <<"0", "1", "2", "3", "4", "5", "6", "7",
      "8", "9", "A", "B", "C", "D", "E", "F">>[n + 1]

HexDigit(n) ==
    <<"0", "1", "2", "3", "4", "5", "6", "7",
      "8", "9", "a", "b", "c", "d", "e", "f">>[n + 1]

\* format(n, '04x') for n < 16^4
Hex4(n) ==
    HexDigit(n \div 4096) \o HexDigit((n \div 256) % 16)
        \o HexDigit((n \div 16) % 16) \o HexDigit(n % 16)

\* format(zlib.adler32(bytes), '08x'): the high half is b, the low half a
_lightweight_hash(bytes) ==
    LET h == adler32(bytes) IN Hex4(h.b) \o Hex4(h.a)

category_hashtable ==
    ("7784104a" :> "") @@
    ("fc279303" :> "eletrU+00F4nicos") @@
    ("11d5189d" :> "casa") @@
    ("8b3caae0" :> "lazer") @@
    ("cfeed549" :> "outros") @@
    ("00fd45bb" :> "restaurante") @@
    ("29637e8d" :> "saU+00FAde") @@
    ("cc8dae95" :> "serviU+00E7os") @@
    ("c6ed8a46" :> "supermercado") @@
    ("5c8d338d" :> "transporte") @@
    ("5a84907b" :> "viagem")

\* category_hashtable.get(image_hash, '?')
Category(image_hash) ==
    IF image_hash \in DOMAIN category_hashtable
    THEN category_hashtable[image_hash] ELSE "?"

Range(f) == {f[x] : x \in DOMAIN f}

\* the elements of a set of numbers in increasing order
RECURSIVE Sorted(_)
Sorted(S) == IF S = {} THEN <<>> ELSE <<Min(S)>> \o Sorted(S \ {Min(S)})

\* Variant of Categories that walks the keys of the dict (each xref once)
\* instead of the list xrefs: [... for xref in xrefs_to_hashes_dict]
CategoriesOfDictKeys(xrefs, xrefs_to_hashes_dict) ==
    LET keys == Sorted(Range(xrefs))
    IN  [i \in 1..Len(keys) |-> Category(xrefs_to_hashes_dict[keys[i]])]

\* hashes = [xrefs_to_hashes_dict[xref] for xref in xrefs], then the
\* category of each hash, appended in turn
Categories(xrefs, xrefs_to_hashes_dict) ==
    [i \in 1..Len(xrefs) |-> Category(xrefs_to_hashes_dict[xrefs[i]])]

\* xrefs = _get_categories_as_xrefs(pymupdf_document)
_get_categories_as_xrefs ==
    /\ pc = "get_categories"
    /\ categories_xrefs' = CategoriesAsXrefs(doc)
    /\ xrefs_to_hashes' = <<>>
    /\ pc' = "get_hashes"
    /\ UNCHANGED <<doc, text, year, entries, table, extract_calls,
                   category_list, new_table, result, error>>

\* one iteration of "for xref in set(xrefs)": a set is iterated in no
\* specified order, so any xref not yet visited may come next
_get_hashes_by_xref ==
    /\ pc = "get_hashes"
    /\ \E xref \in Range(categories_xrefs) \ DOMAIN xrefs_to_hashes :
         LET image_bytes == doc.image[xref]
         IN  /\ xrefs_to_hashes' =
                    (xref :> _lightweight_hash(image_bytes)) @@ xrefs_to_hashes
             /\ extract_calls' =
                    (xref :> (IF xref \in DOMAIN extract_calls
                              THEN extract_calls[xref] ELSE 0) + 1)
                    @@ extract_calls
    /\ UNCHANGED <<doc, pc, text, year, entries, table, categories_xrefs,
                   category_list, new_table, result, error>>

\* the rest of _get_categories, once _get_hashes_by_xref has returned
_get_categories ==
    /\ pc = "get_hashes"
    /\ Range(categories_xrefs) \subseteq DOMAIN xrefs_to_hashes
    /\ category_list' = Categories(categories_xrefs, xrefs_to_hashes)
    /\ new_table' = <<>>
    /\ pc' = "zip"
    /\ UNCHANGED <<doc, text, year, entries, table, categories_xrefs,
                   xrefs_to_hashes, extract_calls, result, error>>

---------------------------------------------------------------------------
(* pdf_to_table                                                            *)

\* ''.join(parts)
RECURSIVE Concat(_)
Concat(parts) ==
    IF parts = <<>> THEN <<>> ELSE parts[1] \o Concat(Tail(parts))

\* doc = pymupdf.open(filename); text = _get_text_from_pdf(doc)
_get_text_from_pdf ==
    /\ pc = "get_text"
    /\ text' = Concat([i \in 1..Len(doc.pages) |-> doc.pages[i].text])
    /\ pc' = "discover_year"
    /\ UNCHANGED <<doc, year, entries, table, categories_xrefs,
                   xrefs_to_hashes, extract_calls, category_list,
                   new_table, result, error>>

\* Variant of ZipNext for zip without strict=True: it stops at the end of
\* the shorter list.
ZipNextNotStrict(a, b, n) ==
    IF n < Len(a) /\ n < Len(b) THEN [kind |-> "item", error |-> NoError]
    ELSE [kind |-> "stop", error |-> NoError]

\* What zip(table, category_list, strict=True) does when asked for item
\* number Len(new_table) + 1: a pair, the end, or the ValueError of strict.
ZipNext(a, b, n) ==
    IF n < Len(a) /\ n < Len(b) THEN [kind |-> "item", error |-> NoError]
    ELSE IF n < Len(a)
    THEN [kind |-> "raise",
          error |-> ValueError("zip() argument 2 is shorter than argument 1")]
    ELSE IF n < Len(b)
    THEN [kind |-> "raise",
          error |-> ValueError("zip() argument 2 is longer than argument 1")]
    ELSE [kind |-> "stop", error |-> NoError]

\* one step of the list comprehension over zip(..., strict=True), or the
\* return of new_table
zip_next ==
    /\ pc = "zip"
    /\ LET n == Len(new_table)
           z == ZipNext(table, category_list, n)
       IN  CASE z.kind = "item" ->
                  /\ new_table' = new_table \o
                        <<<<table[n + 1][1], table[n + 1][2],
                            table[n + 1][3], category_list[n + 1]>>>>
                  /\ UNCHANGED <<pc, result, error>>
             [] z.kind = "raise" ->
                  /\ error' = z.error
                  /\ pc' = "raised"
                  /\ UNCHANGED <<new_table, result>>
             [] z.kind = "stop" ->
                  /\ result' = new_table
                  /\ pc' = "returned"
                  /\ UNCHANGED <<new_table, error>>
    /\ UNCHANGED <<doc, text, year, entries, table, categories_xrefs,
                   xrefs_to_hashes, extract_calls, category_list>>

---------------------------------------------------------------------------
(* Inputs of _discover_year: texts of up to MaxLines lines.                *)

MaxLines == 3

YearLines ==
    { vencimento \o <<" ", "0", "5", " ", "J", "A", "N", " ", "2", "0", "2", "5">>,
      <<"V">> \o Tail(vencimento) \o <<" ", "2", "0", "2", "4">>,
      vencimento \o <<" ", "2", "0", "2", "6", " ">>,
      vencimento \o <<" ", "1", "2", "3">>,
      <<"x">> \o vencimento \o <<"1", "2", "3", "4", "5">>,
      <<"t", "o", "t", "a", "l", " ", "2", "0", "2", "3">>,
      vencimento \o <<" ", "0", "0", "0", "7">>,
      vencimento \o <<" ", "2", "0", "U+0663", "1">>,
      <<>> }

\* '\n'.join(lines)
RECURSIVE JoinLines(_)
JoinLines(ls) ==
    IF ls = <<>> THEN <<>>
    ELSE IF Len(ls) = 1 THEN ls[1]
    ELSE ls[1] \o <<NL>> \o JoinLines(Tail(ls))

SeqsUpTo(S, n) == UNION {[1..k -> S] : k \in 0..n}

EmptyDoc == [pages |-> <<>>, image |-> <<>>]

\* the state in which a call starts at position p on document d, with the
\* locals text and year bound to t and y
Start(d, p, t, y) ==
    /\ doc = d
    /\ pc = p
    /\ text = t
    /\ year = y
    /\ entries = <<>>
    /\ table = <<>>
    /\ categories_xrefs = <<>>
    /\ xrefs_to_hashes = <<>>
    /\ extract_calls = <<>>
    /\ category_list = <<>>
    /\ new_table = <<>>
    /\ result = <<>>
    /\ error = NoError

InitYear ==
    \E ls \in SeqsUpTo(YearLines, MaxLines) :
        Start(EmptyDoc, "discover_year", JoinLines(ls), -1)

NextYear == _discover_year

SpecYear == InitYear /\ [][NextYear]_vars

---------------------------------------------------------------------------
(* Inputs of _get_entries: texts of up to MaxBlocks blocks, and a year.    *)

MaxBlocks == 3

\* '15 DEZ\nUber\nR$ 10,00\n'
BlockUber ==
    <<"1", "5", " ", "D", "E", "Z", NL, "U", "b", "e", "r", NL,
      "R", "$", " ", "1", "0", ",", "0", "0", NL>>

\* '03 JAN\nLoja\n\u2212R$ 1.234,56\n'
BlockLoja ==
    <<"0", "3", " ", "J", "A", "N", NL, "L", "o", "j", "a", NL,
      "U+2212", "R", "$", " ", "1", ".", "2", "3", "4", ",", "5", "6", NL>>

\* '31 ABR\nBar\nR$ 1,00\n'
BlockBar ==
    <<"3", "1", " ", "A", "B", "R", NL, "B", "a", "r", NL,
      "R", "$", " ", "1", ",", "0", "0", NL>>

\* '07 XYZ\nBus\nR$ 1,00\n'
BlockBus ==
    <<"0", "7", " ", "X", "Y", "Z", NL, "B", "u", "s", NL,
      "R", "$", " ", "1", ",", "0", "0", NL>>

\* '09 FEV\nPix\n-R$ 5,00\n'
BlockPix ==
    <<"0", "9", " ", "F", "E", "V", NL, "P", "i", "x", NL,
      "-", "R", "$", " ", "5", ",", "0", "0", NL>>

\* '29 FEV\nGym\nR$ 0,99' (no newline at the end)
BlockGym ==
    <<"2", "9", " ", "F", "E", "V", NL, "G", "y", "m", NL,
      "R", "$", " ", "0", ",", "9", "9">>

\* 'Total\n'
BlockTotal ==
    <<"T", "o", "t", "a", "l", NL>>

\* '00 MAR\nZoo\nR$ 1,00\n'
BlockZoo ==
    <<"0", "0", " ", "M", "A", "R", NL, "Z", "o", "o", NL,
      "R", "$", " ", "1", ",", "0", "0", NL>>

\* '04 MAI\n\nR$ 2,50\n'
BlockNoTitle ==
    <<"0", "4", " ", "M", "A", "I", NL, NL,
      "R", "$", " ", "2", ",", "5", "0", NL>>

\* '3 JUN\nA\nR$ 1,00\n'
BlockOneDigitDay ==
    <<"3", " ", "J", "U", "N", NL, "A", NL,
      "R", "$", " ", "1", ",", "0", "0", NL>>

\* '06 JUL\n07 AGO\nR$ 3,00\n'
BlockDateTitle ==
    <<"0", "6", " ", "J", "U", "L", NL, "0", "7", " ", "A", "G", "O", NL,
      "R", "$", " ", "3", ",", "0", "0", NL>>

\* '11 NOV\nCaf\u00e9\nR$ .,\u06635\n'
BlockCafe ==
    <<"1", "1", " ", "N", "O", "V", NL, "C", "a", "f", "U+00E9", NL,
      "R", "$", " ", ".", ",", "U+0663", "5", NL>>

EntryBlocks ==
    {BlockUber, BlockLoja, BlockBar, BlockBus,
     BlockPix, BlockGym, BlockTotal, BlockZoo,
     BlockNoTitle, BlockOneDigitDay, BlockDateTitle, BlockCafe}

EntryYears == {2024, 2025, 1}

InitEntries ==
    \E bs \in SeqsUpTo(EntryBlocks, MaxBlocks) : \E y \in EntryYears :
        Start(EmptyDoc, "get_entries", Concat(bs), y)

NextEntries == _get_entries \/ for_entry

SpecEntries == InitEntries /\ [][NextEntries]_vars

---------------------------------------------------------------------------
(* Inputs of _get_categories: documents of up to MaxPages pages.           *)

MaxPages == 6

Repeat(x, n) == [i \in 1..n |-> x]

\* The image objects of a document, xref -> raw bytes (extract_image).
\* 10: a page header image; 11: bytes whose checksum is 7784104a;
\* 12 and 14: the same bytes, whose checksum is 11d5189d; 13: other bytes.
ImageBytes ==
    (10 :> <<137, 80, 78, 71>>) @@
    (11 :> Repeat(255, 16) \o <<0, 9>> \o Repeat(0, 12) \o <<80>>) @@
    (12 :> Repeat(255, 24) \o Repeat(0, 7) \o <<167>> \o Repeat(0, 11)
             \o <<13>>) @@
    (13 :> <<1, 2, 3>>) @@
    (14 :> Repeat(255, 24) \o Repeat(0, 7) \o <<167>> \o Repeat(0, 11)
             \o <<13>>)

\* get_image_info(xrefs=True) of a page, as the list of its xrefs
PageImages == {<<>>, <<10>>, <<10, 11>>, <<12, 13, 13, 14>>}

Page(t, imgs) == [text |-> t, images |-> imgs]

Document(ps) == [pages |-> ps, image |-> ImageBytes]

InitCategories ==
    \E imgs \in SeqsUpTo(PageImages, MaxPages) :
        Start(Document([i \in 1..Len(imgs) |-> Page(<<>>, imgs[i])]),
              "get_categories", <<>>, -1)

NextCategories ==
    _get_categories_as_xrefs \/ _get_hashes_by_xref \/ _get_categories

SpecCategories == InitCategories /\ [][NextCategories]_vars

---------------------------------------------------------------------------
(* pdf_to_table on statements: the pages before the transactions, then up  *)
(* to MaxTxPages pages of transactions.                                    *)

MaxTxPages == 3

\* 'vencimento 05 JAN 2025\n'
LineDue2025 ==
    vencimento \o <<" ", "0", "5", " ", "J", "A", "N", " ",
                    "2", "0", "2", "5", NL>>

\* 'vencimento 05 JAN 2024\n'
LineDue2024 ==
    vencimento \o <<" ", "0", "5", " ", "J", "A", "N", " ",
                    "2", "0", "2", "4", NL>>

\* The pages that precede the transaction pages: none; a cover alone; the
\* four pages of a statement, with the due date; the same without a due
\* date; four pages of which the last already lists a transaction.
FrontPages ==
    { <<>>,
      <<Page(LineDue2025, <<10>>)>>,
      <<Page(LineDue2025, <<10>>), Page(BlockTotal, <<10, 11>>),
        Page(<<>>, <<>>), Page(BlockTotal, <<10, 12, 13>>)>>,
      <<Page(BlockTotal, <<10>>), Page(BlockTotal, <<10, 11>>),
        Page(<<>>, <<>>), Page(BlockTotal, <<10, 12, 13>>)>>,
      <<Page(LineDue2024, <<10>>), Page(BlockTotal, <<10, 11>>),
        Page(<<>>, <<>>), Page(BlockGym \o <<NL>>, <<10, 12>>)>> }

\* Transaction pages: the icons match the entries on the first two; the
\* third lacks an icon, the fourth has one too many; the last two hold an
\* entry _get_entries rejects.
TxPages ==
    { Page(BlockUber, <<10, 11>>),
      Page(BlockLoja \o BlockPix, <<10, 12, 13>>),
      Page(BlockCafe, <<10>>),
      Page(BlockTotal, <<10, 14>>),
      Page(BlockBar, <<10, 11>>),
      Page(BlockBus, <<10, 11>>) }

Init ==
    \E front \in FrontPages : \E body \in SeqsUpTo(TxPages, MaxTxPages) :
        Start(Document(front \o body), "get_text", <<>>, -1)

Next ==
    \/ _get_text_from_pdf
    \/ _discover_year
    \/ _get_entries
    \/ for_entry
    \/ _get_categories_as_xrefs
    \/ _get_hashes_by_xref
    \/ _get_categories
    \/ zip_next

Spec == Init /\ [][Next]_vars

---------------------------------------------------------------------------
(* What the properties are stated with: the statement read line by line.   *)

\* the lines of a text, split at each newline
RECURSIVE SplitLines(_)
SplitLines(t) ==
    IF \A i \in 1..Len(t) : t[i] # NL THEN <<t>>
    ELSE LET k == Min({i \in 1..Len(t) : t[i] = NL})
         IN  <<SubSeq(t, 1, k - 1)>> \o SplitLines(SubSeq(t, k + 1, Len(t)))

\* a line that holds 'vencimento', then anything, then four digits that end it
LineHasDueYear(line) ==
    \E i \in 1..Len(line) :
        /\ LiteralAt(line, i, vencimento)
        /\ i + Len(vencimento) + 3 <= Len(line)
        /\ \A k \in (Len(line) - 3)..Len(line) : IsDigit(line[k])

DueLines(t) ==
    {k \in 1..Len(SplitLines(t)) : LineHasDueYear(SplitLines(t)[k])}

\* the number the last four characters of a line spell
LastFourDigits(line) ==
    LET n == Len(line)
    IN  1000 * DigitValue(line[n - 3]) + 100 * DigitValue(line[n - 2])
          + 10 * DigitValue(line[n - 1]) + DigitValue(line[n])

\* 'dd MMM'
IsHeadLine(line) ==
    /\ Len(line) = 6
    /\ IsDigit(line[1]) /\ IsDigit(line[2]) /\ line[3] = " "
    /\ IsUpper(line[4]) /\ IsUpper(line[5]) /\ IsUpper(line[6])

\* the marker of an amount line: the character before 'R$ ', if any
LineMarker(line) == IF LiteralAt(line, 1, R_dollar) THEN <<>> ELSE <<line[1]>>

\* '[marker]R$ ' then digits and dots, a comma and two digits
IsAmountLine(line) ==
    /\ Len(line) >= 1
    /\ LET k == Len(LineMarker(line))
           n == Len(line)
       IN  /\ LiteralAt(line, k + 1, R_dollar)
           /\ n - 3 >= k + 4
           /\ \A j \in (k + 4)..(n - 3) : IsAmountChar(line[j])
           /\ line[n - 2] = ","
           /\ IsDigit(line[n - 1]) /\ IsDigit(line[n])

\* the transaction blocks of a statement in order of appearance: three
\* consecutive lines, a head line, a title and an amount line
RECURSIVE BlocksFrom(_, _)
BlocksFrom(ls, i) ==
    IF i + 2 > Len(ls) THEN <<>>
    ELSE IF IsHeadLine(ls[i]) /\ IsAmountLine(ls[i + 2])
    THEN <<[head |-> ls[i], title |-> ls[i + 1], amount |-> ls[i + 2]]>>
         \o BlocksFrom(ls, i + 3)
    ELSE BlocksFrom(ls, i + 1)

Blocks(t) == BlocksFrom(SplitLines(t), 1)

MonthCodes ==
    << <<"J", "A", "N">>, <<"F", "E", "V">>, <<"M", "A", "R">>,
       <<"A", "B", "R">>, <<"M", "A", "I">>, <<"J", "U", "N">>,
       <<"J", "U", "L">>, <<"A", "G", "O">>, <<"S", "E", "T">>,
       <<"O", "U", "T">>, <<"N", "O", "V">>, <<"D", "E", "Z">> >>

BlockMonthKnown(b) == \E m \in 1..12 : MonthCodes[m] = SubSeq(b.head, 4, 6)

BlockMonth(b) == CHOOSE m \in 1..12 : MonthCodes[m] = SubSeq(b.head, 4, 6)

BlockDay(b) == 10 * DigitValue(b.head[1]) + DigitValue(b.head[2])

\* the year of a block's date under the December rule
BlockYear(b, y) == IF BlockMonth(b) = 12 THEN y - 1 ELSE y

MonthLengths(y) ==
    <<31, IF y % 4 = 0 /\ (y % 100 # 0 \/ y % 400 = 0) THEN 29 ELSE 28,
      31, 30, 31, 30, 31, 31, 30, 31, 30, 31>>

IsCalendarDate(y, m, d) ==
    y \in 1..9999 /\ m \in 1..12 /\ d \in 1..MonthLengths(y)[m]

\* the hundredths an amount line spells: its digits after 'R$ ', dots and
\* comma dropped
BlockHundredths(b) ==
    int(SelectSeq(SubSeq(b.amount, Len(LineMarker(b.amount)) + 4,
                         Len(b.amount)), IsDigit))

\* the row of a block: date, title, signed amount
BlockRow(b, y) ==
    <<[year |-> BlockYear(b, y), month |-> BlockMonth(b), day |-> BlockDay(b)],
      b.title,
      IF LineMarker(b.amount) # <<>> THEN 0 - BlockHundredths(b)
      ELSE BlockHundredths(b)>>

\* the category icons of a document in encounter order: on each page from
\* the fifth on, every image but the first
RECURSIVE IconsUpTo(_, _)
IconsUpTo(d, n) ==
    IF n <= 4 THEN <<>>
    ELSE IconsUpTo(d, n - 1)
         \o [k \in 1..(IF Len(d.pages[n].images) = 0 THEN 0
                       ELSE Len(d.pages[n].images) - 1)
               |-> d.pages[n].images[k + 1]]

Icons(d) == IconsUpTo(d, Len(d.pages))

\* the label of each image object of ImageBytes, from zlib.adler32 of its
\* bytes (03fb016f, 7784104a, 11d5189d, 000d0007, 11d5189d)
KnownLabel ==
    (10 :> "?") @@ (11 :> "") @@ (12 :> "casa") @@ (13 :> "?") @@
    (14 :> "casa")

AllText(d) == Concat([i \in 1..Len(d.pages) |-> d.pages[i].text])

---------------------------------------------------------------------------
(* Properties                                                              *)

\* C2: _discover_year raises the explicit "Year not found" error exactly
\* when no line of the text holds 'vencimento' followed by anything and four
\* digits at the end of the line; otherwise it returns the number those four
\* digits spell on the first such line.
C2_YearOfFirstDueLine ==
    pc # "discover_year" =>
        IF DueLines(text) = {}
        THEN /\ pc = "raised"
             /\ error = ValueError("Year not found in document")
             /\ year = -1
        ELSE /\ pc = "get_entries"
             /\ error = NoError
             /\ year = LastFourDigits(SplitLines(text)[Min(DueLines(text))])

\* C2 witness: a year was returned from a text whose first line is no due
\* line and whose due lines spell different years.
C2_Witness ==
    /\ pc = "get_entries"
    /\ year = 2025
    /\ 1 \notin DueLines(text)
    /\ \E k \in DueLines(text) : LastFourDigits(SplitLines(text)[k]) # 2025

\* C4: _get_entries returns one row per block; every row it builds has the
\* month and the day of its block, and the year is year - 1 for December
\* and year for every other month.
C4_DecemberIsPreviousYear ==
    pc \in {"for_entry", "get_categories", "raised"} =>
        LET bs == Blocks(text)
        IN  /\ Len(table) <= Len(bs)
            /\ pc = "get_categories" => Len(table) = Len(bs)
            /\ \A i \in 1..Len(table) :
                 LET d == table[i][1]
                 IN  /\ d.month = BlockMonth(bs[i])
                     /\ d.day = BlockDay(bs[i])
                     /\ d.month = 12 => d.year = year - 1
                     /\ d.month # 12 => d.year = year

\* C4 witness: with year 2025, '15 DEZ' became 2024-12-15 and '03 JAN'
\* became 2025-01-03 in one returned table.
C4_Witness ==
    /\ pc = "get_categories"
    /\ year = 2025
    /\ \E i, j \in 1..Len(table) :
         /\ table[i][1] = [year |-> 2024, month |-> 12, day |-> 15]
         /\ table[j][1] = [year |-> 2025, month |-> 1, day |-> 3]

\* C5: the value of every row is the amount its block spells, dots dropped
\* and the comma as decimal point, negated if and only if a marker
\* character stands before 'R$'.
C5_AmountAndSign ==
    pc \in {"for_entry", "get_categories", "raised"} =>
        LET bs == Blocks(text)
        IN  /\ Len(table) <= Len(bs)
            /\ \A i \in 1..Len(table) :
                 /\ entries[i][4] = LineMarker(bs[i].amount)
                 /\ LineMarker(bs[i].amount) = <<>>
                      => table[i][3] = BlockHundredths(bs[i])
                 /\ LineMarker(bs[i].amount) # <<>>
                      => table[i][3] = 0 - BlockHundredths(bs[i])

\* C5 witness: '1.234,56' with the marker gave -1234.56 and '10,00' without
\* one gave 10.00.
C5_Witness ==
    /\ pc = "get_categories"
    /\ \E i, j \in 1..Len(table) :
         /\ table[i][3] = -123456 /\ entries[i][4] = <<"U+2212">>
         /\ table[j][3] = 1000 /\ entries[j][4] = <<>>

\* C6: an entry whose month code is none of the twelve keys makes
\* _get_entries fail with a distinct unknown-month error, not with the
\* generic key-not-found error.
C6_UnknownMonthError ==
    (/\ pc = "raised"
     /\ Len(table) < Len(entries)
     /\ entries[Len(table) + 1][2] \notin DOMAIN _MONTHS)
        => error.type = "UnknownMonthError"

\* C10: a block with an ASCII character right before 'R$' is not parsed as
\* an entry with a negated amount.
C10_MarkerIsNotAscii ==
    \A i \in 1..Len(table) :
        (entries[i][4] # <<>> /\ IsAscii(entries[i][4][1]))
            => table[i][3] >= 0

\* C8: _get_categories_as_xrefs returns the xrefs of the images of the pages
\* from index 4 on, in page order and in the reported order within a page,
\* the first image of each page dropped and repeated xrefs kept; four pages
\* or fewer give the empty list.
C8_XrefsOfTransactionPages ==
    pc # "get_categories" =>
        /\ categories_xrefs = Icons(doc)
        /\ Len(doc.pages) <= 4 => categories_xrefs = <<>>

\* C8 witness: six pages with images on the first four, a fifth page with
\* its header image alone and a sixth whose icons repeat an xref.
C8_Witness ==
    /\ pc = "get_hashes"
    /\ Len(doc.pages) = 6
    /\ \A n \in 1..4 : doc.pages[n].images # <<>>
    /\ doc.pages[5].images = <<10>>
    /\ categories_xrefs = <<13, 13, 14>>

\* C9: _get_categories returns one label per xref occurrence, in encounter
\* order: the table's label for the checksum of the image, '?' when the
\* checksum is no key; each distinct xref is extracted exactly once.
C9_LabelPerOccurrence ==
    /\ \A x \in DOMAIN extract_calls : extract_calls[x] = 1
    /\ pc = "zip" =>
         /\ DOMAIN extract_calls = Range(categories_xrefs)
         /\ Len(category_list) = Len(categories_xrefs)
         /\ \A i \in 1..Len(categories_xrefs) :
              LET h == _lightweight_hash(doc.image[categories_xrefs[i]])
              IN  /\ category_list[i] = KnownLabel[categories_xrefs[i]]
                  /\ h \in DOMAIN category_hashtable
                       => category_list[i] = category_hashtable[h]
                  /\ h \notin DOMAIN category_hashtable
                       => category_list[i] = "?"

\* C9 witness: a list in which one xref occurs twice, with an unknown
\* checksum, between labels of known checksums.
C9_Witness ==
    /\ pc = "zip"
    /\ category_list = <<"", "?", "?", "casa">>
    /\ categories_xrefs = <<11, 13, 13, 14>>

\* the faults of a statement: no due line; a block with an unknown month or
\* an impossible date; as many icons as blocks not
Faulty(d) ==
    LET ls == SplitLines(AllText(d))
        due == {k \in 1..Len(ls) : LineHasDueYear(ls[k])}
        y == LastFourDigits(ls[Min(due)])
        bs == BlocksFrom(ls, 1)
    IN  \/ due = {}
        \/ \E i \in 1..Len(bs) :
             \/ ~BlockMonthKnown(bs[i])
             \/ ~IsCalendarDate(BlockYear(bs[i], y), BlockMonth(bs[i]),
                                BlockDay(bs[i]))
        \/ Len(bs) # Len(Icons(d))

\* C1: when the numbers of categories and of entries differ, pdf_to_table
\* fails with an explicit category-count-mismatch error and returns nothing.
C1_CategoryCountMismatchError ==
    (/\ pc \in {"raised", "returned"}
     /\ Len(table) = Len(entries)
     /\ Len(category_list) # Len(table))
        => /\ pc = "raised"
           /\ error.type = "CategoryCountMismatchError"
           /\ result = <<>>

\* C3: when pdf_to_table returns, it returns one row per transaction block,
\* the i-th row being the date, title and amount of the i-th block of the
\* concatenated page text with the label of the i-th icon.
C3_RowsPairedInOrder ==
    pc = "returned" =>
        LET bs == Blocks(AllText(doc))
            icons == Icons(doc)
        IN  Len(bs) = Len(icons) =>
              /\ Len(result) = Len(icons)
              /\ \A i \in 1..Len(result) :
                   LET row == BlockRow(bs[i], year)
                   IN  result[i] = <<row[1], row[2], row[3],
                                     KnownLabel[icons[i]]>>

\* C3 witness: three rows returned, from two pages, with three titles and
\* three labels.
C3_Witness ==
    /\ pc = "returned"
    /\ Len(result) = 3
    /\ Len(doc.pages) = 6
    /\ <<result[1][4], result[2][4], result[3][4]>> = <<"casa", "?", "">>
    /\ Cardinality({result[1][2], result[2][2], result[3][2]}) = 3

\* C7: every error is fatal: pdf_to_table returns only for a statement with
\* no fault and raises only for one with a fault, the raise carries the
\* error, and no row is returned unless the call returns.
C7_ErrorsAreFatal ==
    /\ pc = "returned" => ~Faulty(doc)
    /\ pc = "raised" => Faulty(doc) /\ error # NoError
    /\ pc # "returned" => result = <<>>

\* C7 witness: the call raised on an entry that followed rows already built,
\* and returned none of them.
C7_Witness ==
    /\ pc = "raised"
    /\ Len(table) >= 1
    /\ Len(table) < Len(entries)
    /\ result = <<>>

====
